---- MODULE Spec2Model ----
(***************************************************************************)
(* A model of gPodder's setup.py: the install manifest builder.  The       *)
(* script reads its arguments and environment, walks three directory       *)
(* roots (src/gpodder, bin, share), filters what it finds and hands the    *)
(* three resulting lists to distutils' setup().                            *)
(*                                                                         *)
(* Python strings are modelled as sequences of one-character strings, so   *)
(* that startswith / endswith / split / replace / splitext are computed    *)
(* character by character, as the interpreter computes them.               *)
(* Not modelled: the metadata read of lines 31-34 (src/gpodder/__init__.py *)
(* is taken to be present and well formed).                                *)
(***************************************************************************)
EXTENDS Naturals, Sequences, FiniteSets, TLC

----------------------------------------------------------------------------
(* Bounds of the model *)

\* the largest number of directories a walk of one root reports
MaxDirs == 2

----------------------------------------------------------------------------
(* Python string primitives *)

\* str.startswith
StartsWith(s, p) == Len(p) <= Len(s) /\ SubSeq(s, 1, Len(p)) = p

\* str.endswith
EndsWith(s, p) ==
    Len(p) <= Len(s) /\ SubSeq(s, Len(s) - Len(p) + 1, Len(s)) = p

\* s[:-n]
DropLast(s, n) == IF Len(s) <= n THEN <<>> ELSE SubSeq(s, 1, Len(s) - n)

\* x in list
InList(x, l) == \E i \in 1..Len(l) : l[i] = x

\* os.sep on the platform the script targets
Sep == <<"/">>

\* os.path.join(a, b)
PathJoin(a, b) ==
    IF StartsWith(b, Sep) THEN b
    ELSE IF a = <<>> \/ EndsWith(a, Sep) THEN a \o b
    ELSE a \o Sep \o b

\* s.find(sub): the first index (1-based) at which sub occurs in s, 0 if none
Find(s, sub) ==
    LET hits == {i \in 1..(Len(s) + 1) :
                    i + Len(sub) - 1 <= Len(s) /\ SubSeq(s, i, i + Len(sub) - 1) = sub}
    IN  IF hits = {} THEN 0 ELSE CHOOSE i \in hits : \A j \in hits : i <= j

\* s.rfind(c) for a single character: the last index of c in s, 0 if none
RFindChar(s, c) ==
    LET hits == {i \in 1..Len(s) : s[i] = c}
    IN  IF hits = {} THEN 0 ELSE CHOOSE i \in hits : \A j \in hits : j <= i

\* s.split(sep, maxsplit); maxsplit < 0 is "no limit" and is written NoLimit
RECURSIVE SplitN(_, _, _)
SplitN(s, sep, maxsplit) ==
    LET at == Find(s, sep)
    IN  IF maxsplit = 0 \/ at = 0 THEN <<s>>
        ELSE <<SubSeq(s, 1, at - 1)>>
             \o SplitN(SubSeq(s, at + Len(sep), Len(s)), sep, maxsplit - 1)

\* s.split(sep)
Split(s, sep) == SplitN(s, sep, Len(s) + 1)

\* s.split(): split on runs of whitespace, no empty strings in the result
RECURSIVE SplitWS(_)
SplitWS(s) ==
    IF s = <<>> THEN <<>>
    ELSE IF s[1] = " " THEN SplitWS(Tail(s))
    ELSE LET at == Find(s, <<" ">>)
         IN  IF at = 0 THEN <<s>>
             ELSE <<SubSeq(s, 1, at - 1)>> \o SplitWS(SubSeq(s, at, Len(s)))

\* s.replace(old, new): every non-overlapping occurrence, left to right
RECURSIVE Replace(_, _, _)
Replace(s, old, new) ==
    LET at == Find(s, old)
    IN  IF at = 0 \/ old = <<>> THEN s
        ELSE SubSeq(s, 1, at - 1) \o new
             \o Replace(SubSeq(s, at + Len(old), Len(s)), old, new)

\* os.path.basename(p)
Basename(p) == SubSeq(p, RFindChar(p, "/") + 1, Len(p))

\* os.path.splitext(p)[0]: cut at the last dot of the last component, unless
\* that component consists of leading dots only up to it
SplitextRoot(p) ==
    LET sepIndex == RFindChar(p, "/")
        dotIndex == RFindChar(p, ".")
    IN  IF dotIndex > sepIndex
           /\ \E k \in (sepIndex + 1)..(dotIndex - 1) : p[k] # "."
        THEN SubSeq(p, 1, dotIndex - 1)
        ELSE p

\* '.'.join(parts)
RECURSIVE DotJoin(_)
DotJoin(parts) ==
    IF parts = <<>> THEN <<>>
    ELSE IF Len(parts) = 1 THEN parts[1]
    ELSE parts[1] \o <<".">> \o DotJoin(Tail(parts))

----------------------------------------------------------------------------
(* The string literals of setup.py *)

\* 'share' (line 56)
s_share == <<"s", "h", "a", "r", "e">>

\* 'gpodder' (line 56)
s_gpodder == <<"g", "p", "o", "d", "d", "e", "r">>

\* 'ui' (line 56)
s_ui == <<"u", "i">>

\* 'locale' (line 64)
s_locale == <<"l", "o", "c", "a", "l", "e">>

\* 'man' (line 87)
s_man == <<"m", "a", "n">>

\* 'src' (line 130)
s_src == <<"s", "r", "c">>

\* 'bin' (line 162)
s_bin == <<"b", "i", "n">>

\* '__init__.py' (line 132)
s_init_py == <<"_", "_", "i", "n", "i", "t", "_", "_", ".", "p", "y">>

\* '.1' (line 90)
s_dot1 == <<".", "1">>

\* '.h' (line 104)
s_dot_h == <<".", "h">>

\* '.in' (line 108)
s_dot_in == <<".", "i", "n">>

\* 'gpo' (line 158)
s_gpo == <<"g", "p", "o">>

\* 'cli' (line 158)
s_cli == <<"c", "l", "i">>

\* 'gtk' (line 159)
s_gtk == <<"g", "t", "k">>

\* 'icons' (line 74)
s_icons == <<"i", "c", "o", "n", "s">>

\* 'dbus-1' (line 74)
s_dbus1 == <<"d", "b", "u", "s", "-", "1">>

\* 'applications' (line 74)
s_applications == <<"a", "p", "p", "l", "i", "c", "a", "t", "i", "o", "n", "s">>

\* 'install' (line 28)
s_install == <<"i", "n", "s", "t", "a", "l", "l">>

\* '--help' (line 28)
s_help == <<"-", "-", "h", "e", "l", "p">>

----------------------------------------------------------------------------
(* Python values *)

\* None, and a value that is not None
NoneV == [isNone |-> TRUE, val |-> <<>>]
Some(v) == [isNone |-> FALSE, val |-> v]

\* os.environ.get(name, None)
EnvGet(environ, name) == IF name \in DOMAIN environ THEN Some(environ[name]) ELSE NoneV

\* v.split() applied when v is not None (lines 47-48 and 175-176)
SplitIfSet(v) == IF v.isNone THEN NoneV ELSE Some(SplitWS(v.val))

\* the code points' order of the characters that occur in the model
Alphabet ==
    <<" ", "-", ".", "/", "0", "1", "2", "3", "4", "5", "6", "7", "8", "9",
      "A", "B", "C", "D", "E", "F", "G", "H", "I", "J", "K", "L", "M", "N",
      "O", "P", "Q", "R", "S", "T", "U", "V", "W", "X", "Y", "Z", "_",
      "a", "b", "c", "d", "e", "f", "g", "h", "i", "j", "k", "l", "m", "n",
      "o", "p", "q", "r", "s", "t", "u", "v", "w", "x", "y", "z">>

\* ord(c), up to an order-preserving renumbering
Ord(c) == CHOOSE i \in 1..Len(Alphabet) : Alphabet[i] = c

\* a < b for two str
StrLess(a, b) ==
    \E k \in 1..(Len(b)) :
        /\ k <= Len(a) + 1
        /\ SubSeq(a, 1, k - 1) = SubSeq(b, 1, k - 1)
        /\ (k = Len(a) + 1 \/ Ord(a[k]) < Ord(b[k]))

\* a < b for two lists of str
StrListLess(a, b) ==
    \E k \in 1..(Len(b)) :
        /\ k <= Len(a) + 1
        /\ SubSeq(a, 1, k - 1) = SubSeq(b, 1, k - 1)
        /\ (k = Len(a) + 1 \/ StrLess(a[k], b[k]))

\* a < b for two (dirpath, filenames) tuples
PairLess(a, b) ==
    \/ StrLess(a[1], b[1])
    \/ a[1] = b[1] /\ StrListLess(a[2], b[2])

\* list(sorted(l)) for a list of str: the element at position k is the one
\* with k - 1 elements before it (equal elements keep their order)
SortedStrs(l) ==
    LET pos(i) == Cardinality({j \in 1..Len(l) : StrLess(l[j], l[i])})
                  + Cardinality({j \in 1..(i - 1) : l[j] = l[i]}) + 1
    IN  [k \in 1..Len(l) |-> l[CHOOSE i \in 1..Len(l) : pos(i) = k]]

\* list(sorted(l)) for a list of (dirpath, filenames) tuples
SortedPairs(l) ==
    LET pos(i) == Cardinality({j \in 1..Len(l) : PairLess(l[j], l[i])})
                  + Cardinality({j \in 1..(i - 1) : l[j] = l[i]}) + 1
    IN  [k \in 1..Len(l) |-> l[CHOOSE i \in 1..Len(l) : pos(i) = k]]

----------------------------------------------------------------------------
(* The file system, as os.walk and os.path.exists report it.  A walk is the
   sequence of (dirpath, filenames) that os.walk(root) produces. *)

\* os.path.exists(p) for a path below a walked root: a listed file, or a
\* directory on the way to a listed directory
PathExists(p, walk) ==
    \E i \in 1..Len(walk) :
        \/ \E j \in 1..Len(walk[i].filenames) :
               PathJoin(walk[i].dirpath, walk[i].filenames[j]) = p
        \/ StartsWith(walk[i].dirpath \o Sep, p \o Sep)

----------------------------------------------------------------------------
(* find_packages *)

\* dirparts = dirpath.split(os.sep); dirparts.pop(0)
PackageParts(dirpath) == Tail(Split(dirpath, Sep))

\* package = '.'.join(dirparts)
PackageName(dirpath) == DotJoin(PackageParts(dirpath))

\* PackageSkipped with the trailing "ui" left on the folder names
PackageSkipped_NoStrip(uis, dirpath) ==
    LET ui_parts == SelectSeq(PackageParts(dirpath), LAMBDA p : EndsWith(p, s_ui))
    IN  /\ ~uis.isNone
        /\ ui_parts # <<>>
        /\ \E i \in 1..Len(ui_parts) : ~InList(ui_parts[i], uis.val)

\* lines 140-149: some part ending in "ui", stripped of it, is not selected
PackageSkipped(uis, dirpath) ==
    LET ui_parts == SelectSeq(PackageParts(dirpath), LAMBDA p : EndsWith(p, s_ui))
        folder_uis == [i \in 1..Len(ui_parts) |-> DropLast(ui_parts[i], 2)]
    IN  /\ ~uis.isNone
        /\ ui_parts # <<>>
        /\ \E i \in 1..Len(folder_uis) : ~InList(folder_uis[i], uis.val)

\* the packages the generator yields, in walk order
RECURSIVE find_packages(_, _)
find_packages(uis, walk) ==
    IF walk = <<>> THEN <<>>
    ELSE LET e == Head(walk)
         IN  (IF ~InList(s_init_py, e.filenames) THEN <<>>
              ELSE IF PackageSkipped(uis, e.dirpath) THEN <<>>
              ELSE <<PackageName(e.dirpath)>>)
             \o find_packages(uis, Tail(walk))

----------------------------------------------------------------------------
(* find_scripts *)

\* filename in file_checks
FileCheckKnown(filename) == filename \in {s_gpo, s_gpodder}

\* FileCheck with the two predicates exchanged
FileCheck_Swapped(filename, uis) ==
    IF filename = s_gpo THEN \E ui \in {s_gtk} : InList(ui, uis)
    ELSE InList(s_cli, uis)

\* file_checks[filename](uis)
FileCheck(filename, uis) ==
    IF filename = s_gpo THEN InList(s_cli, uis)
    ELSE \E ui \in {s_gtk} : InList(ui, uis)

\* ScriptSkipped without the test that a selection is set
ScriptSkipped_IgnoresUnset(uis, filename) ==
    FileCheckKnown(filename) /\ ~FileCheck(filename, uis.val)

\* lines 165-168
ScriptSkipped(uis, filename) ==
    ~uis.isNone /\ FileCheckKnown(filename) /\ ~FileCheck(filename, uis.val)

\* the scripts the generator yields, in walk order
RECURSIVE find_scripts(_, _)
find_scripts(uis, walk) ==
    IF walk = <<>> THEN <<>>
    ELSE LET e == Head(walk)
             kept == SelectSeq(e.filenames, LAMBDA f : ~ScriptSkipped(uis, f))
         IN  [i \in 1..Len(kept) |-> PathJoin(e.dirpath, kept[i])]
             \o find_scripts(uis, Tail(walk))

----------------------------------------------------------------------------
(* find_data_files *)

\* os.path.join('share', 'gpodder', 'ui')
share_gpodder_ui == PathJoin(PathJoin(s_share, s_gpodder), s_ui)

\* os.path.join('share', 'locale')
share_locale == PathJoin(s_share, s_locale)

\* os.path.join('share', 'man')
share_man == PathJoin(s_share, s_man)

\* uis_requiring_freedesktop = ('gtk',)
uis_requiring_freedesktop == <<s_gtk>>

\* freedesktop_folders = ('icons', 'dbus-1', 'applications')
freedesktop_folders == <<s_icons, s_dbus1, s_applications>>

\* lines 56-61: the folder of a UI that is not selected
UiFolderSkipped(uis, dirpath) ==
    /\ ~uis.isNone
    /\ StartsWith(dirpath, share_gpodder_ui)
    /\ LET dirparts == Split(dirpath, Sep)
       IN  ~\E i \in 1..Len(dirparts) : InList(dirparts[i], uis.val)

\* line 65: the translation filter applies to this directory
IsTranslation(linguas, dirpath) ==
    ~linguas.isNone /\ StartsWith(dirpath, share_locale)

\* line 66: the four-name unpacking of dirpath.split(os.sep, 3) fails
\* (ValueError) unless the split has exactly four parts
LanguageUnpackFails(dirpath) == Len(SplitN(dirpath, Sep, 3)) # 4

\* line 66: language
LanguageOf(dirpath) == SplitN(dirpath, Sep, 3)[3]

\* lines 67-69
TranslationSkipped(linguas, dirpath) ==
    IsTranslation(linguas, dirpath) /\ ~InList(LanguageOf(dirpath), linguas.val)

\* lines 75-84: skip_folder
FreedesktopSkipped(uis, dirpath) ==
    \E k \in 1..Len(freedesktop_folders) :
        /\ StartsWith(dirpath, PathJoin(s_share, freedesktop_folders[k]))
        /\ ~uis.isNone
        /\ ~\E i \in 1..Len(uis.val) : InList(uis.val[i], uis_requiring_freedesktop)

\* have_script comparing the script's whole path, not its basename
have_script_WholePath(filename, scripts) ==
    IF ~EndsWith(filename, s_dot1) THEN TRUE
    ELSE \E i \in 1..Len(scripts) : scripts[i] = SplitextRoot(filename)

\* lines 89-97: have_script(filename)
have_script(filename, scripts) ==
    IF ~EndsWith(filename, s_dot1) THEN TRUE
    ELSE \E i \in 1..Len(scripts) : Basename(scripts[i]) = SplitextRoot(filename)

\* line 88 and line 98: the filenames left by the manpage filter
ManFiltered(dirpath, filenames, scripts) ==
    IF StartsWith(dirpath, share_man)
    THEN SelectSeq(filenames, LAMBDA f : have_script(f, scripts))
    ELSE filenames

\* lines 108-111: convert_filename raises MissingFile
ConvertRaises(dirpath, filename, installing_, walk) ==
    LET fn == PathJoin(dirpath, filename)
    IN  /\ ~EndsWith(fn, s_dot_h)
        /\ EndsWith(fn, s_dot_in)
        /\ installing_
        /\ ~PathExists(DropLast(fn, 3), walk)

\* convert_filename returning the target of a .in file instead of None
convert_filename_KeepsTarget(dirpath, filename) ==
    LET fn == PathJoin(dirpath, filename)
    IN  IF EndsWith(fn, s_dot_h) THEN NoneV
        ELSE IF EndsWith(fn, s_dot_in) THEN Some(DropLast(fn, 3))
        ELSE Some(fn)

\* lines 100-114: what convert_filename returns when it returns
convert_filename(dirpath, filename) ==
    LET fn == PathJoin(dirpath, filename)
    IN  IF EndsWith(fn, s_dot_h) THEN NoneV
        ELSE IF EndsWith(fn, s_dot_in) THEN NoneV
        ELSE Some(fn)

\* line 116: [_f for _f in map(convert_filename, filenames) if _f]
Converted(dirpath, filenames) ==
    LET m == [i \in 1..Len(filenames) |-> convert_filename(dirpath, filenames[i])]
        kept == SelectSeq(m, LAMBDA r : ~r.isNone /\ r.val # <<>>)
    IN  [i \in 1..Len(kept) |-> kept[i].val]

\* lines 122-124: the directory a kept directory is reported under
OutputDir(dirpath, environ) ==
    IF StartsWith(dirpath, share_man) /\ "GPODDER_MANPATH_NO_SHARE" \in DOMAIN environ
    THEN Replace(dirpath, share_man, s_man)
    ELSE dirpath

\* the exceptions of the run: class MissingFile(BaseException) carries its
\* argument in args and has no other attribute
MissingFile(filename) == [type |-> "MissingFile", args |-> <<filename>>]
ValueError == [type |-> "ValueError", args |-> <<>>]

\* one iteration of the loop of lines 51-126 over a directory of the walk:
\* the directory is skipped, yielded, or an exception leaves the generator
DirOutcome(uis, scripts, linguas, environ, installing_, walk, e) ==
    IF e.filenames = <<>> THEN [kind |-> "skip"]
    ELSE IF UiFolderSkipped(uis, e.dirpath) THEN [kind |-> "skip"]
    ELSE IF IsTranslation(linguas, e.dirpath) /\ LanguageUnpackFails(e.dirpath)
         THEN [kind |-> "raise", exc |-> ValueError]
    ELSE IF TranslationSkipped(linguas, e.dirpath) THEN [kind |-> "skip"]
    ELSE IF FreedesktopSkipped(uis, e.dirpath) THEN [kind |-> "skip"]
    ELSE LET filenames == ManFiltered(e.dirpath, e.filenames, scripts)
             raising == {i \in 1..Len(filenames) :
                            ConvertRaises(e.dirpath, filenames[i], installing_, walk)}
         IN  IF raising # {}
             THEN LET i == CHOOSE i \in raising : \A j \in raising : i <= j
                  IN  [kind |-> "raise",
                       exc |-> MissingFile(DropLast(PathJoin(e.dirpath, filenames[i]), 3))]
             ELSE LET out == Converted(e.dirpath, filenames)
                  IN  IF out = <<>> THEN [kind |-> "skip"]
                      ELSE [kind |-> "yield",
                            item |-> <<OutputDir(e.dirpath, environ), out>>]

\* the generator run to its end from directory i on: the items yielded, or
\* the exception that ended it
RECURSIVE DataFilesFrom(_, _, _, _, _, _, _)
DataFilesFrom(uis, scripts, linguas, environ, installing_, walk, i) ==
    IF i > Len(walk) THEN [raised |-> FALSE, exc |-> NoneV, items |-> <<>>]
    ELSE LET o == DirOutcome(uis, scripts, linguas, environ, installing_, walk, walk[i])
         IN  IF o.kind = "raise"
             THEN [raised |-> TRUE, exc |-> Some(o.exc), items |-> <<>>]
             ELSE LET rest == DataFilesFrom(uis, scripts, linguas, environ,
                                            installing_, walk, i + 1)
                  IN  IF rest.raised THEN rest
                      ELSE [rest EXCEPT !.items =
                               (IF o.kind = "yield" THEN <<o.item>> ELSE <<>>) \o @]

\* find_data_files(uis, scripts), consumed to its end
find_data_files(uis, scripts, environ, installing_, walk) ==
    DataFilesFrom(uis, scripts, SplitIfSet(EnvGet(environ, "LINGUAS")),
                  environ, installing_, walk, 1)

----------------------------------------------------------------------------
(* The inputs of a run: names that occur in the trees and values the model draws from *)

n_setup_py == <<"s", "e", "t", "u", "p", ".", "p", "y">>

n_a == <<"a">>

n_a_in == <<"a", ".", "i", "n">>

n_c_h == <<"c", ".", "h">>

n_c_h_in == <<"c", ".", "h", ".", "i", "n">>

n_m_ui == <<"m", ".", "u", "i">>

n_g_png == <<"g", ".", "p", "n", "g">>

n_readme == <<"r", "e", "a", "d", "m", "e">>

n_g_mo == <<"g", ".", "m", "o">>

n_gpo_1 == <<"g", "p", "o", ".", "1">>

n_gpodder_1 == <<"g", "p", "o", "d", "d", "e", "r", ".", "1">>

n_tool == <<"t", "o", "o", "l">>

n_tool_1 == <<"t", "o", "o", "l", ".", "1">>

n_tool_1_in == <<"t", "o", "o", "l", ".", "1", ".", "i", "n">>

n_index == <<"i", "n", "d", "e", "x">>

n_d_service == <<"d", ".", "s", "e", "r", "v", "i", "c", "e">>

n_x_py == <<"x", ".", "p", "y">>

n_de == <<"d", "e">>

n_fr == <<"f", "r">>

n_LC_MESSAGES == <<"L", "C", "_", "M", "E", "S", "S", "A", "G", "E", "S">>

n_man1 == <<"m", "a", "n", "1">>

n_manual == <<"m", "a", "n", "u", "a", "l">>

n_iconsets == <<"i", "c", "o", "n", "s", "e", "t", "s">>

n_gtkui == <<"g", "t", "k", "u", "i">>

n_webui == <<"w", "e", "b", "u", "i">>

n_desktop == <<"d", "e", "s", "k", "t", "o", "p">>

n_plugins == <<"p", "l", "u", "g", "i", "n", "s">>

n_cli_gtk == <<"c", "l", "i", " ", "g", "t", "k">>

n_one == <<"1">>

\* a path of the tree, from its components
RECURSIVE Path(_)
Path(parts) ==
    IF Len(parts) = 1 THEN parts[1] ELSE PathJoin(Path(DropLast(parts, 1)), parts[Len(parts)])

\* a directory as os.walk reports it
Dir(parts, files) == [dirpath |-> Path(parts), filenames |-> files]

\* directories of the package source tree, in the order a walk reports them
SrcPool ==
    << Dir(<<s_src, s_gpodder>>, <<s_init_py, n_x_py>>),
       Dir(<<s_src, s_gpodder, n_gtkui>>, <<s_init_py>>),
       Dir(<<s_src, s_gpodder, n_gtkui, n_desktop>>, <<s_init_py>>),
       Dir(<<s_src, s_gpodder, n_plugins>>, <<n_x_py>>),
       Dir(<<s_src, s_gpodder, s_ui>>, <<s_init_py>>),
       Dir(<<s_src, s_gpodder, n_webui>>, <<n_x_py, s_init_py>>) >>

\* the scripts root, with and without a script that has no entry in file_checks
BinWalks ==
    { << Dir(<<s_bin>>, <<s_gpo, s_gpodder>>) >>,
      << Dir(<<s_bin>>, <<s_gpodder, n_tool, s_gpo>>) >> }

\* directories of the shared-data tree, in the order a walk reports them
SharePool ==
    << Dir(<<s_share>>, <<>>),
       Dir(<<s_share, s_applications>>, <<n_a_in>>),
       Dir(<<s_share, s_applications>>, <<n_a, n_a_in>>),
       Dir(<<s_share, s_dbus1>>, <<n_d_service>>),
       Dir(<<s_share, s_gpodder>>, <<n_c_h, n_c_h_in>>),
       Dir(<<s_share, s_gpodder, s_ui, s_gtk>>, <<n_m_ui>>),
       Dir(<<s_share, s_icons>>, <<n_g_png>>),
       Dir(<<s_share, n_iconsets>>, <<n_g_png>>),
       Dir(<<s_share, s_locale, n_de>>, <<n_readme>>),
       Dir(<<s_share, s_locale, n_de, n_LC_MESSAGES>>, <<n_g_mo>>),
       Dir(<<s_share, s_locale, n_fr, n_LC_MESSAGES>>, <<n_g_mo>>),
       Dir(<<s_share, s_man, n_man1>>, <<n_gpo_1, n_gpodder_1, n_tool_1, n_tool_1_in>>),
       Dir(<<s_share, n_manual>>, <<n_index>>) >>

\* the walks of at most MaxDirs directories of a pool, no directory twice
SubWalks(pool) ==
    LET picks == {P \in SUBSET (1..Len(pool)) :
                     /\ Cardinality(P) <= MaxDirs
                     /\ \A i, j \in P : pool[i].dirpath = pool[j].dirpath => i = j}
        nth(P, k) == CHOOSE i \in P : Cardinality({j \in P : j < i}) = k - 1
    IN  {[k \in 1..Cardinality(P) |-> pool[nth(P, k)]] : P \in picks}

\* the trees of the model: a varied package tree beside the plain scripts
\* and data, or varied scripts and data beside the plain package tree
FileSystems ==
    {[src |-> s, bin |-> <<Dir(<<s_bin>>, <<s_gpo, s_gpodder>>)>>, share |-> <<>>] :
        s \in SubWalks(SrcPool)}
    \cup
    {[src |-> <<SrcPool[1]>>, bin |-> b, share |-> sh] :
        b \in BinWalks, sh \in SubWalks(SharePool)}

\* sys.argv
Argvs == { <<n_setup_py>>, <<n_setup_py, s_install>>, <<n_setup_py, s_install, s_help>> }

\* os.environ, restricted to the three variables the script reads
Environs ==
    LET mk(u, l, m) ==
            LET full == [n \in {"GPODDER_INSTALL_UIS", "LINGUAS", "GPODDER_MANPATH_NO_SHARE"} |->
                            IF n = "GPODDER_INSTALL_UIS" THEN u
                            ELSE IF n = "LINGUAS" THEN l ELSE m]
            IN  [n \in {k \in DOMAIN full : ~full[k].isNone} |-> full[n].val]
    IN  {mk(u, l, m) :
            u \in {NoneV, Some(<<>>), Some(s_cli), Some(s_gtk), Some(n_cli_gtk)},
            l \in {NoneV, Some(n_de)},
            m \in {NoneV, Some(n_one)}}

----------------------------------------------------------------------------
(* The run of the script *)

VARIABLES
    argv,          \* sys.argv
    environ,       \* os.environ
    fs,            \* the three trees as os.walk reports them
    pc,            \* the statement the script is at
    installing,    \* line 28
    uis,           \* line 174
    packages,      \* line 182
    scripts,       \* line 183
    data_files,    \* line 184
    exc,           \* the exception in flight or being handled, if any
    caught,        \* how many times the except clause of line 185 was entered
    stderr,        \* what was written to sys.stderr
    setup_calls,   \* the calls of distutils' setup(), with their lists
    exit_status    \* the status the process ended with

vars == <<argv, environ, fs, pc, installing, uis, packages, scripts, data_files,
          exc, caught, stderr, setup_calls, exit_status>>

Init ==
    /\ argv \in Argvs
    /\ environ \in Environs
    /\ fs \in FileSystems
    /\ pc = "installing"
    /\ installing = FALSE
    /\ uis = NoneV
    /\ packages = NoneV
    /\ scripts = NoneV
    /\ data_files = NoneV
    /\ exc = NoneV
    /\ caught = 0
    /\ stderr = <<>>
    /\ setup_calls = <<>>
    /\ exit_status = NoneV

\* an exception no except clause takes: the interpreter writes the traceback,
\* with the exception being handled (if any) as its context, and exits with 1
Uncaught(e, context) ==
    /\ stderr' = Append(stderr, [kind |-> "traceback", exc |-> e, context |-> context])
    /\ exit_status' = Some(1)
    /\ pc' = "exited"

\* line 28
SetInstalling ==
    /\ pc = "installing"
    /\ installing' = (InList(s_install, argv) /\ ~InList(s_help, argv))
    /\ pc' = "uis"
    /\ UNCHANGED <<argv, environ, fs, uis, packages, scripts, data_files, exc,
                   caught, stderr, setup_calls, exit_status>>

\* lines 174-178
ReadUis ==
    /\ pc = "uis"
    /\ uis' = SplitIfSet(EnvGet(environ, "GPODDER_INSTALL_UIS"))
    /\ pc' = "packages"
    /\ UNCHANGED <<argv, environ, fs, installing, packages, scripts, data_files, exc,
                   caught, stderr, setup_calls, exit_status>>

\* line 182
BuildPackages ==
    /\ pc = "packages"
    /\ packages' = Some(SortedStrs(find_packages(uis, fs.src)))
    /\ pc' = "scripts"
    /\ UNCHANGED <<argv, environ, fs, installing, uis, scripts, data_files, exc,
                   caught, stderr, setup_calls, exit_status>>

\* line 183
BuildScripts ==
    /\ pc = "scripts"
    /\ scripts' = Some(SortedStrs(find_scripts(uis, fs.bin)))
    /\ pc' = "data_files"
    /\ UNCHANGED <<argv, environ, fs, installing, uis, packages, data_files, exc,
                   caught, stderr, setup_calls, exit_status>>

\* line 184: the list is assigned, or MissingFile reaches the except clause of
\* line 185, or another exception leaves the try statement
BuildDataFiles ==
    /\ pc = "data_files"
    /\ LET r == find_data_files(uis, scripts.val, environ, installing, fs.share)
       IN  IF ~r.raised
           THEN /\ data_files' = Some(SortedPairs(r.items))
                /\ pc' = "setup"
                /\ UNCHANGED <<exc, stderr, exit_status>>
           ELSE IF r.exc.val.type = "MissingFile"
           THEN /\ exc' = r.exc
                /\ pc' = "except"
                /\ UNCHANGED <<data_files, stderr, exit_status>>
           ELSE /\ exc' = r.exc
                /\ Uncaught(r.exc.val, NoneV)
                /\ UNCHANGED data_files
    /\ UNCHANGED <<argv, environ, fs, installing, uis, packages, scripts, caught,
                   setup_calls>>

\* lines 185-192: the handler formats its message from mf.message; an object
\* without that attribute makes the lookup raise AttributeError
HandleMissingFile ==
    /\ pc = "except"
    /\ caught' = caught + 1
    /\ IF "message" \in DOMAIN exc.val
       THEN /\ stderr' = Append(stderr, [kind |-> "remedy", file |-> exc.val.message])
            /\ exit_status' = Some(1)
            /\ pc' = "exited"
       ELSE Uncaught([type |-> "AttributeError", args |-> <<>>], exc)
    /\ UNCHANGED <<argv, environ, fs, installing, uis, packages, scripts, data_files,
                   exc, setup_calls>>

\* the statuses the packaging backend may end the process with
BackendStatuses == {0, 1}

\* lines 195-209, and the end of the script
CallSetup ==
    /\ pc = "setup"
    /\ setup_calls' = Append(setup_calls,
                             [packages |-> packages.val, scripts |-> scripts.val,
                              data_files |-> data_files.val])
    /\ \E st \in BackendStatuses : exit_status' = Some(st)
    /\ pc' = "exited"
    /\ UNCHANGED <<argv, environ, fs, installing, uis, packages, scripts, data_files,
                   exc, caught, stderr>>

Next ==
    \/ SetInstalling
    \/ ReadUis
    \/ BuildPackages
    \/ BuildScripts
    \/ BuildDataFiles
    \/ HandleMissingFile
    \/ CallSetup

Spec == Init /\ [][Next]_vars

----------------------------------------------------------------------------
(* What the claims speak of *)

\* the UI selection is set, and read
UiFilteringActive == pc \notin {"installing", "uis"} /\ ~uis.isNone

\* the path segments of a directory
Segments(dirpath) == {Split(dirpath, Sep)[i] : i \in 1..Len(Split(dirpath, Sep))}

\* the directories of the package tree that hold the package-marker file
PackageDirs == {i \in 1..Len(fs.src) : InList(s_init_py, fs.src[i].filenames)}

\* the script files under the scripts root, as <<directory index, file index>>
ScriptFiles ==
    UNION {{<<i, j>> : j \in 1..Len(fs.bin[i].filenames)} : i \in 1..Len(fs.bin)}

\* the path and the name of a script file
ScriptPath(ij) == PathJoin(fs.bin[ij[1]].dirpath, fs.bin[ij[1]].filenames[ij[2]])
ScriptName(ij) == fs.bin[ij[1]].filenames[ij[2]]

\* the files of the shared-data tree, as <<directory index, file index>>
ShareFiles ==
    UNION {{<<i, j>> : j \in 1..Len(fs.share[i].filenames)} : i \in 1..Len(fs.share)}

\* the directory, the name and the path of a file of the shared-data tree
ShareDir(ij) == fs.share[ij[1]].dirpath
ShareName(ij) == fs.share[ij[1]].filenames[ij[2]]
SharePath(ij) == ShareDir(ij) \o Sep \o ShareName(ij)

\* dirpath is the directory root or lies inside it
UnderDir(dirpath, root) == dirpath = root \/ StartsWith(dirpath, root \o Sep)

\* the try statement's third enumeration has ended, one way or the other
DataPhaseOver == pc \in {"setup", "except", "exited"}

\* the data-file list was built
ManifestBuilt == ~data_files.isNone

\* a path is among the files of the data-file list
InManifest(path) ==
    ManifestBuilt /\ \E k \in 1..Len(data_files.val) : InList(path, data_files.val[k][2])

\* the exception that ended the enumeration, if one did
MissingFileRaised == ~exc.isNone /\ exc.val.type = "MissingFile"
ValueErrorRaised == ~exc.isNone /\ exc.val.type = "ValueError"

\* 'install' among the arguments and no '--help'
ActualInstall ==
    /\ \E i \in 1..Len(argv) : argv[i] = s_install
    /\ \A i \in 1..Len(argv) : argv[i] # s_help

\* the selected languages
Linguas == SplitIfSet(EnvGet(environ, "LINGUAS"))

\* some script of the script list is named name
ScriptNamed(name) ==
    ~scripts.isNone /\ \E k \in 1..Len(scripts.val) : EndsWith(scripts.val[k], Sep \o name)

----------------------------------------------------------------------------
(* C6 *)

\* C6: with UI filtering active, a directory holding the package-marker file
\* is in the package list if and only if every one of its path segments that
\* ends in "ui" is, with the "ui" stripped, a member of the UI selection.
C6_PackageIffUiSegmentsSelected ==
    (UiFilteringActive /\ ~packages.isNone) =>
        \A i \in PackageDirs :
            InList(PackageName(fs.src[i].dirpath), packages.val)
            <=> \A seg \in Segments(fs.src[i].dirpath) :
                    EndsWith(seg, s_ui) => InList(DropLast(seg, 2), uis.val)

\* a run with a selection set in which one marked directory with a "...ui"
\* segment is left out and another marked directory is taken
C6_Witness ==
    /\ UiFilteringActive /\ ~packages.isNone
    /\ \E i \in PackageDirs :
           /\ \E seg \in Segments(fs.src[i].dirpath) : EndsWith(seg, s_ui)
           /\ ~InList(PackageName(fs.src[i].dirpath), packages.val)
    /\ \E i \in PackageDirs :
           /\ \E seg \in Segments(fs.src[i].dirpath) : EndsWith(seg, s_ui)
           /\ InList(PackageName(fs.src[i].dirpath), packages.val)

----------------------------------------------------------------------------
(* C7 *)

\* C7: with UI filtering active, gpo is in the script list only if cli is
\* selected, gpodder only if gtk is selected, and every script of another name
\* is in the list; with the selection {cli}, gpo is in and gpodder is out.
C7_ScriptsFilteredByPredicate ==
    (UiFilteringActive /\ ~scripts.isNone) =>
        \A ij \in ScriptFiles :
            LET in == InList(ScriptPath(ij), scripts.val)
            IN  /\ ScriptName(ij) = s_gpo => (in => InList(s_cli, uis.val))
                /\ ScriptName(ij) = s_gpodder => (in => InList(s_gtk, uis.val))
                /\ ScriptName(ij) \notin {s_gpo, s_gpodder} => in
                /\ uis.val = <<s_cli>> =>
                       /\ ScriptName(ij) = s_gpo => in
                       /\ ScriptName(ij) = s_gpodder => ~in

\* a run with the selection {cli}: gpo and a script of another name are
\* taken, gpodder is left out
C7_Witness ==
    /\ UiFilteringActive /\ ~scripts.isNone /\ uis.val = <<s_cli>>
    /\ InList(PathJoin(s_bin, s_gpo), scripts.val)
    /\ InList(PathJoin(s_bin, n_tool), scripts.val)
    /\ \E ij \in ScriptFiles : ScriptName(ij) = s_gpodder
    /\ ~InList(PathJoin(s_bin, s_gpodder), scripts.val)

----------------------------------------------------------------------------
(* C8 *)

\* C8: when the UI selection is unset, every directory holding the
\* package-marker file is in the package list and every file under the
\* scripts root is in the script list, and that is what setup() is given.
C8_UnsetSelectsEverything ==
    "GPODDER_INSTALL_UIS" \notin DOMAIN environ =>
        /\ ~packages.isNone =>
               \A i \in PackageDirs : InList(PackageName(fs.src[i].dirpath), packages.val)
        /\ ~scripts.isNone =>
               \A ij \in ScriptFiles : InList(ScriptPath(ij), scripts.val)
        /\ \A k \in 1..Len(setup_calls) :
               /\ \A i \in PackageDirs :
                      InList(PackageName(fs.src[i].dirpath), setup_calls[k].packages)
               /\ \A ij \in ScriptFiles : InList(ScriptPath(ij), setup_calls[k].scripts)

\* a run without a selection that has listed a "...ui" package and both known
\* scripts and has called setup()
C8_Witness ==
    /\ "GPODDER_INSTALL_UIS" \notin DOMAIN environ
    /\ setup_calls # <<>>
    /\ \E i \in PackageDirs :
           /\ \E seg \in Segments(fs.src[i].dirpath) : EndsWith(seg, s_ui)
           /\ InList(PackageName(fs.src[i].dirpath), setup_calls[1].packages)
    /\ InList(PathJoin(s_bin, s_gpo), setup_calls[1].scripts)
    /\ InList(PathJoin(s_bin, s_gpodder), setup_calls[1].scripts)

----------------------------------------------------------------------------
(* C3 *)

\* C3: when the data-file list is built, a file foo.1 of the man-pages
\* directory share/man (or of a directory inside it) is in the list if and
\* only if a script named foo is in the script list.
C3_ManpageIffScript ==
    ManifestBuilt =>
        \A ij \in ShareFiles :
            (UnderDir(ShareDir(ij), share_man) /\ EndsWith(ShareName(ij), s_dot1)
             /\ Len(ShareName(ij)) > 2) =>
                (InManifest(SharePath(ij)) <=> ScriptNamed(DropLast(ShareName(ij), 2)))

\* a run with the selection {cli} and both manpages on disk: gpo.1 is listed,
\* gpodder.1 is not
C3_Witness ==
    /\ ManifestBuilt /\ ~uis.isNone /\ uis.val = <<s_cli>>
    /\ InManifest(Path(<<s_share, s_man, n_man1, n_gpo_1>>))
    /\ \E ij \in ShareFiles : SharePath(ij) = Path(<<s_share, s_man, n_man1, n_gpodder_1>>)
    /\ ~InManifest(Path(<<s_share, s_man, n_man1, n_gpodder_1>>))

----------------------------------------------------------------------------
(* C1 *)

\* a directory with files that none of the three directory-level filters
\* skips
Survives(i) ==
    LET d == fs.share[i].dirpath
    IN  /\ fs.share[i].filenames # <<>>
        /\ ~UiFolderSkipped(uis, d)
        /\ ~(IsTranslation(Linguas, d)
             /\ (LanguageUnpackFails(d) \/ TranslationSkipped(Linguas, d)))
        /\ ~FreedesktopSkipped(uis, d)

\* the files x.in of the directories that survive
InFiles == {ij \in ShareFiles : Survives(ij[1]) /\ EndsWith(ShareName(ij), s_dot_in)}

\* x, for a file x.in: its name, its path, and whether it is on disk beside x.in
TargetName(ij) == DropLast(ShareName(ij), 3)
TargetPath(ij) == DropLast(SharePath(ij), 3)
TargetPresent(ij) == InList(TargetName(ij), fs.share[ij[1]].filenames)

\* C1 as stated: x.in is never in the manifest; x absent in an actual install
\* fails the construction with MissingFile naming x; x present makes the
\* construction succeed with x in the manifest; without an actual install an
\* absent x never fails it.
C1_Original ==
    DataPhaseOver =>
        \A ij \in InFiles :
            /\ ~InManifest(SharePath(ij))
            /\ (~TargetPresent(ij) /\ ActualInstall) =>
                   (MissingFileRaised /\ exc.val.args = <<TargetPath(ij)>>)
            /\ TargetPresent(ij) => (ManifestBuilt /\ InManifest(TargetPath(ij)))
            /\ ~ActualInstall => ~MissingFileRaised

\* x is a name the file-level rules keep: no .h, no .in, and no manpage that
\* the manpage filter drops
KeptName(ij) ==
    /\ ~EndsWith(TargetName(ij), s_dot_h)
    /\ ~EndsWith(TargetName(ij), s_dot_in)
    /\ (StartsWith(ShareDir(ij), share_man) /\ EndsWith(TargetName(ij), s_dot1)) =>
           ScriptNamed(DropLast(TargetName(ij), 2))

\* C1, amended: x.in is never in the manifest; x absent in an actual install
\* fails the construction (no data-file list is built), and a MissingFile that
\* is raised names the absent target of some x.in of a surviving directory;
\* when x is present and the construction succeeds, x is in the manifest
\* exactly when x is itself a name the file-level rules keep; without an
\* actual install MissingFile is never raised.
C1_InFilesChecked ==
    DataPhaseOver =>
        /\ ~ActualInstall => ~MissingFileRaised
        /\ MissingFileRaised =>
               \E ij \in InFiles : ~TargetPresent(ij) /\ exc.val.args = <<TargetPath(ij)>>
        /\ \A ij \in InFiles :
               /\ ~InManifest(SharePath(ij))
               /\ (~TargetPresent(ij) /\ ActualInstall) => (~ManifestBuilt /\ ~exc.isNone)
               /\ (TargetPresent(ij) /\ ManifestBuilt) =>
                      (InManifest(TargetPath(ij)) <=> KeptName(ij))

\* an actual install with share/applications/a.in and no share/applications/a:
\* MissingFile naming share/applications/a has reached the except clause
C1_Witness ==
    /\ pc = "except" /\ ActualInstall /\ MissingFileRaised
    /\ exc.val.args = <<Path(<<s_share, s_applications, n_a>>)>>
    /\ \E ij \in InFiles : ~TargetPresent(ij) /\ TargetPath(ij) = exc.val.args[1]

----------------------------------------------------------------------------
(* C2 *)

\* C2: whenever MissingFile was raised, by the end of the process it was
\* caught exactly once and the remediation message naming the missing path
\* was written to the error stream.
C2_Original ==
    (pc = "exited" /\ MissingFileRaised) =>
        /\ caught = 1
        /\ \E i \in 1..Len(stderr) :
               stderr[i].kind = "remedy" /\ stderr[i].file = exc.val.args[1]

----------------------------------------------------------------------------
(* C4 *)

\* C4: no directory with files under share/locale makes the enumeration fail,
\* and when the data-file list is built such a directory is in it if and only
\* if its third path component is a selected language or no selection is set.
C4_Original ==
    DataPhaseOver =>
        \A i \in 1..Len(fs.share) :
            LET d == fs.share[i].dirpath
            IN  (fs.share[i].filenames # <<>> /\ UnderDir(d, share_locale)
                 /\ Len(Split(d, Sep)) >= 3) =>
                    /\ ~ValueErrorRaised
                    /\ ManifestBuilt =>
                           ((\E j \in 1..Len(fs.share[i].filenames) :
                                 InManifest(d \o Sep \o fs.share[i].filenames[j]))
                            <=> (Linguas.isNone \/ InList(Split(d, Sep)[3], Linguas.val)))

----------------------------------------------------------------------------
(* C5 *)

\* the directory a data directory is to be reported under: man/... for
\* share/man and what lies inside it when the override is set, else itself
ExpectedOutputDir(d) ==
    IF "GPODDER_MANPATH_NO_SHARE" \in DOMAIN environ /\ UnderDir(d, share_man)
    THEN s_man \o SubSeq(d, Len(share_man) + 1, Len(d))
    ELSE d

\* C5: with the override set, share/man/... is reported as man/... and every
\* other directory is reported under its own path; without the override every
\* directory is reported under its own path.
C5_Original ==
    ManifestBuilt =>
        \A ij \in ShareFiles : \A k \in 1..Len(data_files.val) :
            InList(SharePath(ij), data_files.val[k][2]) =>
                data_files.val[k][1] = ExpectedOutputDir(ShareDir(ij))

----------------------------------------------------------------------------
(* C9 *)

\* one of the desktop-integration folders, or a directory inside one
IsDesktopFolder(d) ==
    \E folder \in {s_icons, s_dbus1, s_applications} : UnderDir(d, s_share \o Sep \o folder)

\* C9: once the data files were enumerated, the desktop-integration filter
\* has skipped a directory if and only if a UI selection is set, the directory
\* is a desktop-integration folder and gtk is not selected; a directory with
\* a plain file that no filter is to skip is in the data-file list.
C9_Original ==
    DataPhaseOver =>
        \A i \in 1..Len(fs.share) :
            LET d == fs.share[i].dirpath
            IN  /\ FreedesktopSkipped(uis, d)
                   <=> (~uis.isNone /\ IsDesktopFolder(d) /\ ~InList(s_gtk, uis.val))
                /\ (ManifestBuilt /\ ~IsDesktopFolder(d)
                    /\ ~UnderDir(d, share_gpodder_ui) /\ ~UnderDir(d, share_locale)
                    /\ InList(n_g_png, fs.share[i].filenames)) =>
                       InManifest(d \o Sep \o n_g_png)

----------------------------------------------------------------------------
(* C10 *)

\* C10: a run in which MissingFile was raised never calls setup(), builds no
\* data-file list, enters the handler at most once and ends with status 1; a
\* run in which it was not raised calls setup() exactly once, after the three
\* lists were built in the order packages, scripts, data files.
C10_Original ==
    /\ ~scripts.isNone => ~packages.isNone
    /\ ~data_files.isNone => ~scripts.isNone
    /\ setup_calls # <<>> => (Len(setup_calls) = 1 /\ ManifestBuilt /\ ~MissingFileRaised)
    /\ MissingFileRaised => (setup_calls = <<>> /\ ~ManifestBuilt /\ caught <= 1)
    /\ (pc = "exited" /\ MissingFileRaised) => exit_status = Some(1)
    /\ (pc = "exited" /\ ~MissingFileRaised) => Len(setup_calls) = 1

====
